---- MODULE Spec2Model ----
(***************************************************************************)
(* Image-captioning service: the request handler generate_caption_route   *)
(* and the greedy decode loop, in its two variants                        *)
(*   backend/generate_caption.py  (Keras model,  generate_desc)           *)
(*   pa_backend/app.py            (ONNX session, generate_desc_onnx)      *)
(*                                                                         *)
(* A text (in_text, raw_desc, the caption) is a sequence whose items are  *)
(* either the separator " " or one word; words are the non-empty,         *)
(* whitespace-free keys a Keras Tokenizer keeps in word_index.            *)
(***************************************************************************)
EXTENDS Integers, Sequences, FiniteSets, TLC

\* max_length = 32 in both variants; scaled down so that the decode loop can be
\* explored exhaustively.
max_length == 3

\* Longest token sequence given to the sentinel-stripping post-processing
\* when it is explored as a pure function.
MaxTokens == 4

Requests == {"r1", "r2"}

Variants == {"backend", "pa_backend"}

None == "None"

\* Two persisted vocabularies (tokenizer.word_index): ids are unique and
\* positive; the first assigns 1..3, the second leaves id 3 unassigned.
Vocabularies ==
  { [w \in {"start", "end", "a"} |->
        CASE w = "start" -> 1 [] w = "end" -> 2 [] OTHER -> 3],
    [w \in {"start", "end", "a"} |->
        CASE w = "a" -> 1 [] w = "start" -> 2 [] OTHER -> 4] }

\* The ids np.argmax can return: the width of the score vector, which covers
\* the pad id 0 and every assigned id.
Ids == 0 .. 4

VARIABLES
  proc,            \* the process: importing the module, or serving requests
  session_loads,   \* how often the scoring model has been constructed
  variant,         \* which of the two programs this process runs
  tokenizer,       \* word_index, loaded once at startup
  session,         \* the scoring function, as far as calls have revealed it
  pc,              \* per request: position in generate_caption_route
  request,         \* per request: the inbound HTTP request
  data_url,        \* per request: payload.get("image")
  pil_img,         \* per request: decode_data_url's result
  photo_features,  \* per request: extract_features_from_pil's result
  in_text,         \* per request: the decode loop's text
  step,            \* per request: iterations of the decode loop started
  halt,            \* per request: why the decode loop ended
  predicted,       \* per request: the ids chosen by argmax, in order
  calls,           \* per request: calls of decode / extractor / session
  response,        \* per request: what the client receives
  strip_pc,        \* post-processing as a pure function: position
  strip_in,        \* ... its input token sequence
  strip_out,       \* ... the results of applying it once and twice
  lookup_pc,       \* the vocabulary round trip as a pure function: position
  lookup_word,     \* ... the word looked up
  lookup_id,       \* ... the id word_index assigns to it
  lookup_back      \* ... what word_for_id gives for that id

vars == << proc, session_loads, variant, tokenizer, session, pc, request,
           data_url, pil_img, photo_features, in_text, step, halt, predicted,
           calls, response, strip_pc, strip_in, strip_out,
           lookup_pc, lookup_word, lookup_id, lookup_back >>

loadVars == << proc, session_loads >>

svcVars == << proc, session_loads, variant, tokenizer, session, pc, request,
              data_url, pil_img, photo_features, in_text, step, halt, predicted,
              calls, response >>

stripVars == << strip_pc, strip_in, strip_out >>

lookupVars == << lookup_pc, lookup_word, lookup_id, lookup_back >>

----------------------------------------------------------------------------
(* Texts                                                                   *)

\* str.split(): the words of a text, separators dropped.
Split(text) == SelectSeq(text, LAMBDA c : c /= " ")

\* " ".join(tokens)
RECURSIVE Join(_)
Join(tokens) ==
  IF tokens = << >> THEN << >>
  ELSE IF Len(tokens) = 1 THEN << tokens[1] >>
  ELSE << tokens[1], " " >> \o Join(Tail(tokens))

\* in_text += " " + word
Append_word(text, word) ==
  text \o << " " >> \o (IF word = "" THEN << >> ELSE << word >>)

----------------------------------------------------------------------------
(* Vocabulary                                                              *)

\* Variant of word_for_id: "idx == integer + 1", an off-by-one scan that finds
\* a word for the pad id.
word_for_id_off_by_one(integer) ==
  IF \E w \in DOMAIN tokenizer : tokenizer[w] = integer + 1
  THEN CHOOSE w \in DOMAIN tokenizer : tokenizer[w] = integer + 1
  ELSE None

\* Variant of word_for_id: "return w" not under the "if", so the first word
\* scanned is returned whatever the id.
word_for_id_first_word(integer) ==
  IF DOMAIN tokenizer /= {}
  THEN CHOOSE w \in DOMAIN tokenizer : TRUE
  ELSE None

\* word_for_id: the word whose index equals the id, or None.
word_for_id(integer) ==
  IF \E w \in DOMAIN tokenizer : tokenizer[w] = integer
  THEN CHOOSE w \in DOMAIN tokenizer : tokenizer[w] = integer
  ELSE None

\* tokenizer.texts_to_sequences([text])[0]: the ids of the words of the text
\* that word_index knows; a word it does not know is dropped.
RECURSIVE ids_of(_)
ids_of(tokens) ==
  IF tokens = << >> THEN << >>
  ELSE (IF tokens[1] \in DOMAIN tokenizer THEN << tokenizer[tokens[1]] >> ELSE << >>)
       \o ids_of(Tail(tokens))

texts_to_sequences(text) == ids_of(Split(text))

\* Variant of pad_sequences: maxlen=max_length - 1.
pad_sequences_one_short(seq) ==
  IF Len(seq) >= max_length - 1
  THEN SubSeq(seq, Len(seq) - (max_length - 1) + 1, Len(seq))
  ELSE [k \in 1 .. (max_length - 1 - Len(seq)) |-> 0] \o seq

\* pad_sequences([seq], maxlen=max_length): zeros in front up to max_length,
\* or only the last max_length ids of a longer sequence.
pad_sequences(seq) ==
  IF Len(seq) >= max_length
  THEN SubSeq(seq, Len(seq) - max_length + 1, Len(seq))
  ELSE [k \in 1 .. (max_length - Len(seq)) |-> 0] \o seq

----------------------------------------------------------------------------
(* Scoring                                                                 *)

\* Score vectors the model can return: one id scored above the rest, or all
\* ids scored alike.
ScoreVectors ==
  { [j \in Ids |-> IF j = k THEN 1 ELSE 0] : k \in Ids } \cup { [j \in Ids |-> 1] }

\* np.argmax: the first index that holds the maximum.
argmax(v) ==
  CHOOSE k \in DOMAIN v :
    /\ \A j \in DOMAIN v : v[j] <= v[k]
    /\ \A j \in DOMAIN v : j < k => v[j] < v[k]

\* Variant of session_gives: inference run in training mode (dropout on), so
\* a repeated call on the same input may score differently.
session_gives_anything(key, v) == TRUE

\* caption_model.predict / session.run in inference mode is a function of
\* its two inputs: v is what it gives on `key`, the same on every call.
session_gives(key, v) == key \in DOMAIN session => v = session[key]

----------------------------------------------------------------------------
(* The decode loop: generate_desc / generate_desc_onnx                     *)

\* Variant of loop_continues: "while True", the bound forgotten.
loop_without_bound(i) == TRUE

\* Variant of loop_continues: range(max_length - 1), one iteration short.
loop_one_short(i) == i < max_length - 1

\* for _ in range(max_length): another iteration starts after i iterations.
loop_continues(i) == i < max_length

\* Variant of breaks_before_append: pa_backend tests "if not word" only.
breaks_before_append_not_on_end(word) ==
  IF variant = "backend"
  THEN word = None
  ELSE word = None \/ word = ""

\* The loop leaves before appending the word: backend on None; pa_backend on
\* "not word or word == 'end'".
breaks_before_append(word) ==
  IF variant = "backend"
  THEN word = None
  ELSE word = None \/ word = "" \/ word = "end"

\* Variant of breaks_after_append: the "if word == 'end': break" left out.
never_breaks_after_append(word) == FALSE

\* The loop leaves after appending the word: backend on "end".
breaks_after_append(word) == variant = "backend" /\ word = "end"

\* The text after one iteration that chose `word`.
text_after(text, word) ==
  IF breaks_before_append(word) THEN text ELSE Append_word(text, word)

halt_kind(word, i) ==
  IF word = None \/ word = "" THEN "unknown"
  ELSE IF word = "end" THEN "end"
  ELSE IF ~loop_continues(i) THEN "length"
  ELSE "none"

\* Variant of store_text: in_text kept in one module-level variable that
\* every running request writes.
store_text_shared(r, text) == [q \in Requests |-> text]

\* in_text is a local of the running call: the iteration of request r stores
\* the text of request r only.
store_text(r, text) == [in_text EXCEPT ![r] = text]

\* The whole loop as a function of the scoring function: the text
\* generate_desc / generate_desc_onnx returns for the features `photo`, from
\* `text` after i iterations. Where the scoring function has not been
\* revealed on an input the run needs, the result is "<unscored>".
RECURSIVE generate_desc(_, _, _)
generate_desc(photo, text, i) ==
  IF ~loop_continues(i) THEN text
  ELSE LET key == << photo, pad_sequences(texts_to_sequences(text)) >> IN
       IF key \notin DOMAIN session THEN << "<unscored>" >>
       ELSE LET word == word_for_id(argmax(session[key])) IN
            IF breaks_before_append(word) \/ breaks_after_append(word)
            THEN text_after(text, word)
            ELSE generate_desc(photo, text_after(text, word), i + 1)

----------------------------------------------------------------------------
(* Post-processing: strip "start" and "end"                                *)

\* Variant of strip_sentinels: the trailing "end" is left in place.
strip_keeps_end(tokens) ==
  IF tokens /= << >> /\ tokens[1] = "start" THEN Tail(tokens) ELSE tokens

\* Variant of strip_sentinels: the leading "start" is left in place.
strip_keeps_start(tokens) ==
  IF tokens /= << >> /\ tokens[Len(tokens)] = "end"
  THEN SubSeq(tokens, 1, Len(tokens) - 1) ELSE tokens

\* Variant of strip_sentinels: tokens[1:] without looking at tokens[0].
strip_drops_first(tokens) ==
  LET t1 == IF tokens /= << >> THEN Tail(tokens) ELSE tokens
  IN  IF t1 /= << >> /\ t1[Len(t1)] = "end" THEN SubSeq(t1, 1, Len(t1) - 1) ELSE t1

strip_sentinels(tokens) ==
  LET t1 == IF tokens /= << >> /\ tokens[1] = "start" THEN Tail(tokens) ELSE tokens
  IN  IF t1 /= << >> /\ t1[Len(t1)] = "end" THEN SubSeq(t1, 1, Len(t1) - 1) ELSE t1

\* raw_desc -> final_caption
final_caption(raw_desc) == Join(strip_sentinels(Split(raw_desc)))

----------------------------------------------------------------------------
(* The inbound request                                                     *)

Bodies ==
  { "malformed", "null", "empty_array", "array",
    "no_image", "image_empty", "image_number", "image_no_comma",
    "image_bad_base64", "image_not_an_image", "image_jpeg0", "image_jpeg1" }

\* Every body sent as application/json, and one well-formed body sent under
\* another content type.
Inputs ==
  { [ctype |-> "application/json", body |-> b] : b \in Bodies }
  \cup { [ctype |-> "text/plain", body |-> "image_jpeg0"] }

EmptyDict == [type |-> "dict", truthy |-> FALSE, image |-> "absent"]

\* request.get_json(silent=True): None for another content type or a body
\* that does not parse, else the parsed value.
get_json(req) ==
  IF req.ctype /= "application/json" \/ req.body \in {"malformed", "null"}
  THEN [type |-> "none", truthy |-> FALSE, image |-> "absent"]
  ELSE IF req.body = "empty_array" THEN [type |-> "list", truthy |-> FALSE, image |-> "absent"]
  ELSE IF req.body = "array" THEN [type |-> "list", truthy |-> TRUE, image |-> "absent"]
  ELSE [type |-> "dict", truthy |-> TRUE,
        image |-> CASE req.body = "no_image"           -> "absent"
                    [] req.body = "image_empty"        -> "empty_str"
                    [] req.body = "image_number"       -> "number"
                    [] req.body = "image_no_comma"     -> "no_comma"
                    [] req.body = "image_bad_base64"   -> "bad_base64"
                    [] req.body = "image_not_an_image" -> "not_an_image"
                    [] req.body = "image_jpeg0"        -> "jpeg0"
                    [] OTHER                           -> "jpeg1"]

\* request.get_json(silent=True) or {}
payload_of(req) == IF get_json(req).truthy THEN get_json(req) ELSE EmptyDict

\* Variant of no_image: the "if not data_url" check left out.
no_image_unchecked(url) == FALSE

\* "if not data_url": a missing field (None) and the empty string are falsy.
no_image(url) == url \in {"absent", "empty_str"}

\* decode_data_url: every exception (no split on a number, no comma to
\* unpack, bad base64, bytes that are no image) becomes None.
decode_data_url(url) ==
  CASE url = "jpeg0" -> "img0"
    [] url = "jpeg1" -> "img1"
    [] OTHER         -> None

\* xception_model.predict on the preprocessed image (backend); the stub
\* returns zeros whatever the image (pa_backend).
features_of(img) ==
  IF variant = "pa_backend" THEN "zeros"
  ELSE IF img = "img0" THEN "v0" ELSE "v1"

\* Variant of extraction_failed: the "is None" check left out.
extraction_failure_ignored(feats) == FALSE

\* "if photo_features is None": the route answers 500.
extraction_failed(feats) == feats = None

NoResponse == [status |-> 0, field |-> "none", caption |-> << >>, error |-> ""]

error_response(code, msg) ==
  [status |-> code, field |-> "error", caption |-> << >>, error |-> msg]

caption_response(text) ==
  [status |-> 200, field |-> "caption", caption |-> text, error |-> ""]

\* An exception that leaves the view function: the framework answers 500
\* with its own page, not a JSON body of the handler.
unhandled_exception == [status |-> 500, field |-> "none", caption |-> << >>, error |-> ""]

decode_error_message ==
  IF variant = "backend" THEN "Failed to decode base64 image" ELSE "Invalid base64 image"

NoCalls == [decode |-> 0, extract |-> 0, session |-> 0]

----------------------------------------------------------------------------
(* The service                                                             *)

\* No request has arrived.
RequestsIdle ==
  /\ pc = [r \in Requests |-> "idle"]
  /\ request = [r \in Requests |-> [ctype |-> "", body |-> ""]]
  /\ data_url = [r \in Requests |-> "absent"]
  /\ pil_img = [r \in Requests |-> None]
  /\ photo_features = [r \in Requests |-> None]
  /\ in_text = [r \in Requests |-> << >>]
  /\ step = [r \in Requests |-> 0]
  /\ halt = [r \in Requests |-> "none"]
  /\ predicted = [r \in Requests |-> << >>]
  /\ calls = [r \in Requests |-> NoCalls]
  /\ response = [r \in Requests |-> NoResponse]

\* The process has started and not yet run the module's top-level code; no
\* request can arrive before it has.
SvcStart ==
  /\ proc = "import"
  /\ session_loads = 0
  /\ variant \in Variants
  /\ session = << >>
  /\ RequestsIdle

\* tokenizer.p holds one of the persisted vocabularies.
SvcInit ==
  /\ tokenizer \in Vocabularies
  /\ SvcStart

StripIdle ==
  /\ strip_pc = "off"
  /\ strip_in = << >>
  /\ strip_out = << >>

LookupIdle ==
  /\ lookup_pc = "off"
  /\ lookup_word = ""
  /\ lookup_id = 0
  /\ lookup_back = ""

Init == SvcInit /\ StripIdle /\ LookupIdle

\* Variant of module_not_loaded: the model is constructed again whenever the
\* loading code is reached.
module_loads_again == TRUE

\* Python runs a module's top-level code once per process.
module_not_loaded == proc = "import"

\* The web server hands requests to the route once the module is imported.
serving == proc = "serving"

\* The module's top-level code: the tokenizer is unpickled and the scoring
\* model (load_model / ort.InferenceSession) is constructed.
Module_Load ==
  /\ module_not_loaded
  /\ proc' = "serving"
  /\ session_loads' = session_loads + 1
  /\ UNCHANGED << variant, tokenizer, session, pc, request, data_url, pil_img,
                  photo_features, in_text, step, halt, predicted, calls, response >>
  /\ UNCHANGED << stripVars, lookupVars >>

\* generate_caption_route, up to "if not data_url".
Route_Parse(r) ==
  /\ serving
  /\ pc[r] = "idle"
  /\ \E req \in Inputs :
       LET payload == payload_of(req) IN
       /\ request' = [request EXCEPT ![r] = req]
       /\ IF payload.type /= "dict"
          THEN \* payload.get on a list: AttributeError leaves the handler
               /\ response' = [response EXCEPT ![r] = unhandled_exception]
               /\ pc' = [pc EXCEPT ![r] = "done"]
               /\ UNCHANGED data_url
          ELSE IF no_image(payload.image)
          THEN /\ response' = [response EXCEPT ![r] = error_response(400, "No image provided")]
               /\ pc' = [pc EXCEPT ![r] = "done"]
               /\ data_url' = [data_url EXCEPT ![r] = payload.image]
          ELSE /\ data_url' = [data_url EXCEPT ![r] = payload.image]
               /\ pc' = [pc EXCEPT ![r] = "decode"]
               /\ UNCHANGED response
  /\ UNCHANGED << variant, tokenizer, session, pil_img, photo_features, in_text,
                  step, halt, predicted, calls >>
  /\ UNCHANGED << loadVars, stripVars, lookupVars >>

\* pil_img = decode_data_url(data_url); if pil_img is None: 400.
Route_Decode(r) ==
  /\ pc[r] = "decode"
  /\ LET img == decode_data_url(data_url[r]) IN
       /\ pil_img' = [pil_img EXCEPT ![r] = img]
       /\ calls' = [calls EXCEPT ![r].decode = @ + 1]
       /\ IF img = None
          THEN /\ response' = [response EXCEPT ![r] = error_response(400, decode_error_message)]
               /\ pc' = [pc EXCEPT ![r] = "done"]
          ELSE /\ pc' = [pc EXCEPT ![r] = "extract"]
               /\ UNCHANGED response
  /\ UNCHANGED << variant, tokenizer, session, request, data_url, photo_features,
                  in_text, step, halt, predicted >>
  /\ UNCHANGED << loadVars, stripVars, lookupVars >>

\* photo_features = extract_features_from_pil(pil_img); if None: 500; else
\* generate_desc starts with in_text = "start". The backend's extractor
\* returns None when the encoder raises; the pa_backend stub cannot fail.
Route_Extract(r) ==
  /\ pc[r] = "extract"
  /\ \E raised \in (IF variant = "backend" THEN BOOLEAN ELSE {FALSE}) :
       LET feats == IF raised THEN None ELSE features_of(pil_img[r]) IN
       /\ photo_features' = [photo_features EXCEPT ![r] = feats]
       /\ calls' = [calls EXCEPT ![r].extract = @ + 1]
       /\ IF extraction_failed(feats)
          THEN /\ response' = [response EXCEPT ![r] = error_response(500, "Feature extraction failed")]
               /\ pc' = [pc EXCEPT ![r] = "done"]
               /\ UNCHANGED in_text
          ELSE /\ pc' = [pc EXCEPT ![r] = "loop"]
               /\ in_text' = store_text(r, << "start" >>)
               /\ UNCHANGED response
  /\ UNCHANGED << variant, tokenizer, session, request, data_url, pil_img,
                  step, halt, predicted >>
  /\ UNCHANGED << loadVars, stripVars, lookupVars >>

\* One iteration of the decode loop, the scoring call included. The scoring
\* function is fixed but arbitrary: a first call on an input draws its score
\* vector, a later call on the same input gets the same one.
Desc_Step(r) ==
  /\ pc[r] = "loop"
  /\ loop_continues(step[r])
  /\ LET seq == pad_sequences(texts_to_sequences(in_text[r]))
         key == << photo_features[r], seq >>
     IN
     /\ calls' = [calls EXCEPT ![r].session = @ + 1]
     /\ \/ \* the scoring call raises: nothing catches it
           /\ response' = [response EXCEPT ![r] = unhandled_exception]
           /\ pc' = [pc EXCEPT ![r] = "done"]
           /\ halt' = [halt EXCEPT ![r] = "raised"]
           /\ UNCHANGED << session, in_text, step, predicted >>
        \/ \E v \in ScoreVectors :
             /\ session_gives(key, v)
             /\ session' = (key :> v) @@ session
             /\ LET yhat == argmax(v)
                    word == word_for_id(yhat)
                    done == \/ breaks_before_append(word)
                            \/ breaks_after_append(word)
                            \/ ~loop_continues(step[r] + 1)
                IN
                /\ in_text' = store_text(r, text_after(in_text[r], word))
                /\ predicted' = [predicted EXCEPT ![r] = Append(@, yhat)]
                /\ step' = [step EXCEPT ![r] = @ + 1]
                /\ halt' = [halt EXCEPT ![r] = halt_kind(word, step[r] + 1)]
                /\ pc' = [pc EXCEPT ![r] = IF done THEN "post" ELSE "loop"]
                /\ UNCHANGED response
  /\ UNCHANGED << variant, tokenizer, request, data_url, pil_img, photo_features >>
  /\ UNCHANGED << loadVars, stripVars, lookupVars >>

\* raw_desc = generate_desc(...); strip; join; return the caption.
Route_Post(r) ==
  /\ pc[r] = "post"
  /\ response' = [response EXCEPT ![r] = caption_response(final_caption(in_text[r]))]
  /\ pc' = [pc EXCEPT ![r] = "done"]
  /\ UNCHANGED << variant, tokenizer, session, request, data_url, pil_img,
                  photo_features, in_text, step, halt, predicted, calls >>
  /\ UNCHANGED << loadVars, stripVars, lookupVars >>

Next ==
  \/ Module_Load
  \/ \E r \in Requests :
       \/ Route_Parse(r)
       \/ Route_Decode(r)
       \/ Route_Extract(r)
       \/ Desc_Step(r)
       \/ Route_Post(r)

Spec == Init /\ [][Next]_vars

----------------------------------------------------------------------------
(* Post-processing explored as a pure function                             *)

Tokens == {"start", "end", "a"}

TokenSeqs == UNION { [1 .. n -> Tokens] : n \in 0 .. MaxTokens }

StripInit ==
  /\ SvcInit
  /\ LookupIdle
  /\ strip_pc = "input"
  /\ strip_in \in TokenSeqs
  /\ strip_out = << >>

\* Apply the stripping to the input, then once more to its own result.
Strip_Apply ==
  /\ strip_pc \in {"input", "once"}
  /\ strip_out' = Append(strip_out,
                         strip_sentinels(IF strip_pc = "input" THEN strip_in
                                         ELSE strip_out[Len(strip_out)]))
  /\ strip_pc' = IF strip_pc = "input" THEN "once" ELSE "twice"
  /\ UNCHANGED strip_in
  /\ UNCHANGED << svcVars, lookupVars >>

StripNext == Strip_Apply

StripSpec == StripInit /\ [][StripNext]_vars

----------------------------------------------------------------------------
(* The vocabulary round trip explored as a pure function                   *)

\* Every word_index over the words: each word it holds has its own id among
\* the assigned ones, in any order and with any gaps.
AllVocabularies ==
  { f \in UNION { [W -> Ids \ {0}] : W \in SUBSET Tokens } :
      \A v, w \in DOMAIN f : f[v] = f[w] => v = w }

LookupInit ==
  /\ SvcStart
  /\ StripIdle
  /\ tokenizer \in AllVocabularies
  /\ lookup_pc = "ready"
  /\ lookup_word = ""
  /\ lookup_id = 0
  /\ lookup_back = ""

\* tokenizer.word_index[w]: the id assigned to a word of the vocabulary.
Lookup_Id ==
  /\ lookup_pc = "ready"
  /\ \E w \in DOMAIN tokenizer :
       /\ lookup_word' = w
       /\ lookup_id' = tokenizer[w]
  /\ lookup_pc' = "id"
  /\ UNCHANGED lookup_back
  /\ UNCHANGED << svcVars, stripVars >>

\* word_for_id on that id.
Lookup_Word ==
  /\ lookup_pc = "id"
  /\ lookup_back' = word_for_id(lookup_id)
  /\ lookup_pc' = "word"
  /\ UNCHANGED << lookup_word, lookup_id >>
  /\ UNCHANGED << svcVars, stripVars >>

LookupNext == Lookup_Id \/ Lookup_Word

LookupSpec == LookupInit /\ [][LookupNext]_vars

----------------------------------------------------------------------------
(* The two variants run on the same vocabulary, scoring function, features *)

PairFeatures == {"zeros", "v0"}

\* Both programs have loaded the same tokenizer.p and the same model; the
\* backend runs first.
PairInit ==
  /\ proc = "serving"
  /\ session_loads = 1
  /\ variant = "backend"
  /\ tokenizer \in Vocabularies
  /\ session = << >>
  /\ RequestsIdle
  /\ StripIdle
  /\ LookupIdle

\* backend: raw_desc = generate_desc(photo_features), on some features.
Pair_Start ==
  /\ variant = "backend"
  /\ pc["r1"] = "idle"
  /\ \E f \in PairFeatures :
       photo_features' = [photo_features EXCEPT !["r1"] = f]
  /\ in_text' = store_text("r1", << "start" >>)
  /\ pc' = [pc EXCEPT !["r1"] = "loop"]
  /\ UNCHANGED << variant, tokenizer, session, request, data_url, pil_img,
                  step, halt, predicted, calls, response >>
  /\ UNCHANGED << loadVars, stripVars, lookupVars >>

\* pa_backend: raw_desc = generate_desc_onnx(photo_features), on the same
\* features, once the backend has answered.
Pair_Switch ==
  /\ variant = "backend"
  /\ pc["r1"] = "done"
  /\ pc["r2"] = "idle"
  /\ variant' = "pa_backend"
  /\ photo_features' = [photo_features EXCEPT !["r2"] = photo_features["r1"]]
  /\ in_text' = store_text("r2", << "start" >>)
  /\ pc' = [pc EXCEPT !["r2"] = "loop"]
  /\ UNCHANGED << tokenizer, session, request, data_url, pil_img,
                  step, halt, predicted, calls, response >>
  /\ UNCHANGED << loadVars, stripVars, lookupVars >>

PairNext ==
  \/ Pair_Start
  \/ Pair_Switch
  \/ \E r \in Requests :
       \/ Desc_Step(r)
       \/ Route_Post(r)

PairSpec == PairInit /\ [][PairNext]_vars

----------------------------------------------------------------------------
(* Helpers of the properties                                               *)

Assigned(id) == \E w \in DOMAIN tokenizer : tokenizer[w] = id

\* The id is assigned to a word other than END.
KnownNonEnd(id) == \E w \in DOMAIN tokenizer : tokenizer[w] = id /\ w /= "end"

IsEndId(id) == "end" \in DOMAIN tokenizer /\ tokenizer["end"] = id

\* The words of the first k predicted ids of request r.
WordsOf(r, k) == [j \in 1 .. k |-> word_for_id(predicted[r][j])]

Range(f) == { f[x] : x \in DOMAIN f }

Answered(r) == pc[r] = "done"

HasCaption(r) == Answered(r) /\ response[r].field = "caption"

----------------------------------------------------------------------------
\* C1: the decode loop of a request makes at most max_length calls to the
\* Inference Session, whatever ids come back, and is never still looping
\* once max_length iterations are done.
C1_DecodeHaltsWithinMaxLength ==
  \A r \in Requests :
    /\ calls[r].session <= max_length
    /\ step[r] <= max_length
    /\ pc[r] = "loop" => step[r] < max_length

\* A request whose loop ran to the length bound: max_length calls, then out.
C1_Witness ==
  \E r \in Requests :
    /\ pc[r] = "post"
    /\ calls[r].session = max_length
    /\ halt[r] = "length"

\* C2: when the session predicts k known non-END words and then END
\* (0 <= k < max_length), the request returns the caption w1..wk joined by
\* single spaces, the empty caption when k = 0.
C2_CaptionIsPredictedWords ==
  \A r \in Requests :
    LET n == Len(predicted[r]) IN
    ( /\ n >= 1
      /\ IsEndId(predicted[r][n])
      /\ \A j \in 1 .. (n - 1) : KnownNonEnd(predicted[r][j]) )
    => /\ n - 1 < max_length
       /\ pc[r] \in {"post", "done"}
       /\ Answered(r) =>
            /\ response[r].field = "caption"
            /\ response[r].status = 200
            /\ response[r].caption = Join(WordsOf(r, n - 1))

\* Two words, then END: the caption is the two words with one space.
C2_Witness ==
  \E r \in Requests :
    /\ HasCaption(r)
    /\ Len(predicted[r]) = 3
    /\ IsEndId(predicted[r][3])
    /\ response[r].caption = << "a", " ", "start" >>

\* The case k = 0: END on the first step, the empty caption.
C2_EmptyCaption ==
  \E r \in Requests :
    /\ HasCaption(r)
    /\ Len(predicted[r]) = 1
    /\ IsEndId(predicted[r][1])
    /\ response[r].caption = << >>

\* C3, as stated: a session that predicts a known non-END word on every step
\* gives a caption of exactly max_length - 1 words.
C3_Original ==
  \A r \in Requests :
    ( /\ HasCaption(r)
      /\ \A j \in 1 .. Len(predicted[r]) : KnownNonEnd(predicted[r][j]) )
    => Len(Split(response[r].caption)) = max_length - 1

\* C3, amended: a session that predicts a known non-END word on every step
\* makes the loop run all max_length iterations; the raw text is START plus
\* max_length words with no END at its end, and the caption holds exactly
\* max_length words.
C3_CaptionHasMaxLengthWords ==
  \A r \in Requests :
    ( /\ HasCaption(r)
      /\ \A j \in 1 .. Len(predicted[r]) : KnownNonEnd(predicted[r][j]) )
    => /\ Len(predicted[r]) = max_length
       /\ halt[r] = "length"
       /\ Len(Split(in_text[r])) = max_length + 1
       /\ Split(in_text[r])[max_length + 1] /= "end"
       /\ Len(Split(response[r].caption)) = max_length
       /\ Split(response[r].caption) = WordsOf(r, max_length)

C3_Witness ==
  \E r \in Requests :
    /\ HasCaption(r)
    /\ halt[r] = "length"
    /\ \A j \in 1 .. Len(predicted[r]) : KnownNonEnd(predicted[r][j])
    /\ Len(Split(response[r].caption)) = max_length

\* The requests that are input errors: another content type, a body that is
\* no JSON, a JSON object without a usable image field, an image value that
\* does not decode.
InputError(req) ==
  \/ req.ctype /= "application/json"
  \/ req.body \in { "malformed", "null", "empty_array", "no_image", "image_empty",
                    "image_number", "image_no_comma", "image_bad_base64",
                    "image_not_an_image" }

MissingImageField(req) ==
  \/ req.ctype /= "application/json"
  \/ req.body \in { "malformed", "null", "empty_array", "no_image" }

\* C4: an input error is answered 400 with the field error; the Feature
\* Extractor and the Inference Session are never invoked for it; a missing
\* image field is answered before any attempt to decode an image.
C4_InputErrorIs400 ==
  \A r \in Requests :
    (pc[r] /= "idle" /\ InputError(request[r]))
    => /\ calls[r].extract = 0
       /\ calls[r].session = 0
       /\ pc[r] \in {"decode", "done"}
       /\ MissingImageField(request[r]) => (calls[r].decode = 0 /\ Answered(r))
       /\ Answered(r) =>
            /\ response[r].status = 400
            /\ response[r].field = "error"
            /\ response[r].error /= ""

\* A malformed base64 payload: one decode attempt, then 400.
C4_Witness ==
  \E r \in Requests :
    /\ Answered(r)
    /\ request[r].body = "image_bad_base64"
    /\ calls[r] = [decode |-> 1, extract |-> 0, session |-> 0]
    /\ response[r].status = 400
    /\ response[r].field = "error"

\* C5: every answered request got a caption response or a JSON error
\* response with the field error and status 400 or 500.
C5_EveryFailureClassified ==
  \A r \in Requests :
    Answered(r) =>
      \/ response[r].field = "caption"
      \/ response[r].field = "error" /\ response[r].status \in {400, 500}

\* C6: when the Feature Extractor fails on a decoded image the request is
\* answered 500 with the field error, no caption is produced and the
\* Inference Session is never called for it.
C6_ExtractorFailureIs500 ==
  \A r \in Requests :
    (calls[r].extract >= 1 /\ pil_img[r] /= None /\ photo_features[r] = None)
    => /\ Answered(r)
       /\ response[r].status = 500
       /\ response[r].field = "error"
       /\ response[r].caption = << >>
       /\ calls[r].session = 0
       /\ in_text[r] = << >>

C6_Witness ==
  \E r \in Requests :
    /\ Answered(r)
    /\ calls[r] = [decode |-> 1, extract |-> 1, session |-> 0]
    /\ photo_features[r] = None
    /\ response[r].status = 500

HasDoubleStart(tokens) ==
  Len(tokens) >= 2 /\ tokens[1] = "start" /\ tokens[2] = "start"

HasDoubleEnd(tokens) ==
  Len(tokens) >= 2 /\ tokens[Len(tokens)] = "end" /\ tokens[Len(tokens) - 1] = "end"

NoSentinelAtEnds(tokens) ==
  tokens = << >> \/ (tokens[1] /= "start" /\ tokens[Len(tokens)] /= "end")

\* C7, as stated: on every token sequence stripping twice gives what
\* stripping once gives.
C7_Original ==
  strip_pc = "twice" => strip_out[2] = strip_out[1]

\* C7, amended: stripping is a no-op on a sequence with no START at the
\* front and no END at the back, and stripping twice gives what stripping
\* once gives exactly on the sequences that neither begin with two STARTs
\* nor end with two ENDs.
C7_StripIdempotentUnlessDoubled ==
  /\ (strip_pc \in {"once", "twice"} /\ NoSentinelAtEnds(strip_in))
       => strip_out[1] = strip_in
  /\ strip_pc = "twice" =>
       ( strip_out[2] = strip_out[1]
         <=> ~(HasDoubleStart(strip_in) \/ HasDoubleEnd(strip_in)) )

C7_Witness ==
  /\ strip_pc = "twice"
  /\ strip_in = << "start", "a", "end" >>
  /\ strip_out = << << "a" >>, << "a" >> >>

\* C8: word_for_id gives None for every id no word is assigned, the pad id
\* 0 among them; when the decoder's chosen id is such an id the loop ends on
\* that step with the text as the step found it, and the request returns
\* the caption of the words generated before.
C8_UnknownIdHaltsCleanly ==
  /\ ~Assigned(0)
  /\ \A id \in Ids : ~Assigned(id) => word_for_id(id) = None
  /\ \A r \in Requests :
       LET n == Len(predicted[r]) IN
       (n >= 1 /\ ~Assigned(predicted[r][n]))
       => /\ pc[r] \in {"post", "done"}
          /\ halt[r] = "unknown"
          /\ \A j \in 1 .. (n - 1) : KnownNonEnd(predicted[r][j])
          /\ Split(in_text[r]) = << "start" >> \o WordsOf(r, n - 1)
          /\ Answered(r) =>
               /\ response[r].field = "caption"
               /\ response[r].caption = Join(WordsOf(r, n - 1))

C8_Witness ==
  \E r \in Requests :
    /\ HasCaption(r)
    /\ Len(predicted[r]) = 2
    /\ predicted[r][2] = 0
    /\ response[r].caption = << "a" >>

\* C9, as stated: neither START nor END is a word of a returned caption.
C9_Original ==
  \A r \in Requests :
    HasCaption(r) =>
      /\ "start" \notin Range(response[r].caption)
      /\ "end" \notin Range(response[r].caption)

\* C9, amended: END is never a word of a returned caption, and START is a
\* word of it only at a position where the Inference Session itself
\* predicted START's id; the START the decoder begins with is always
\* stripped.
C9_CaptionSentinels ==
  \A r \in Requests :
    HasCaption(r) =>
      LET ws == Split(response[r].caption) IN
      /\ "end" \notin Range(ws)
      /\ Len(ws) <= Len(predicted[r])
      /\ \A j \in 1 .. Len(ws) :
           ws[j] = "start" =>
             ("start" \in DOMAIN tokenizer /\ predicted[r][j] = tokenizer["start"])

\* The session predicted START, then END: the decoder's own START and the
\* END are stripped, the predicted START stays.
C9_Witness ==
  \E r \in Requests :
    /\ HasCaption(r)
    /\ Len(predicted[r]) = 2
    /\ predicted[r][1] = tokenizer["start"]
    /\ IsEndId(predicted[r][2])
    /\ response[r].caption = << "start" >>

\* A step leaves the vocabulary alone, never changes a score the session
\* has given, and changes the text of a request only when that request
\* itself moved.
SharedStateReadOnly ==
  /\ tokenizer' = tokenizer
  /\ \A k \in DOMAIN session : k \in DOMAIN session' /\ session'[k] = session[k]
  /\ \A r \in Requests :
       (pc'[r] = pc[r] /\ step'[r] = step[r]) => in_text'[r] = in_text[r]

\* The caption request r gets is the one its features give when run alone.
CaptionAsIfAlone ==
  \A r \in Requests :
    HasCaption(r) =>
      response[r].caption = final_caption(generate_desc(photo_features[r], << "start" >>, 0))

\* C10: under every interleaving of the requests the vocabulary and the
\* scoring function stay as constructed, each request's decode text is
\* written by that request only, and every request returns the caption it
\* would return alone on its own feature vector.
C10_RequestsIsolated == [][SharedStateReadOnly]_vars /\ []CaptionAsIfAlone

\* One request answered while the other, on other features, is in the
\* middle of its own loop with another text.
C10_Witness ==
  \E r, q \in Requests :
    /\ r /= q
    /\ HasCaption(r)
    /\ response[r].caption = << "a" >>
    /\ pc[q] = "loop"
    /\ step[q] >= 1
    /\ photo_features[q] /= photo_features[r]
    /\ Split(in_text[q]) = << "start", "start" >>

\* The decode loop of request r has been entered.
InDecode(r) == pc[r] \in {"loop", "post", "done"} /\ photo_features[r] /= None

\* The decode loop of request r has returned its text.
Returned(r) == pc[r] \in {"post", "done"} /\ halt[r] /= "raised"

\* C11: for one scoring model, one vocabulary and one feature vector the
\* decode loop is deterministic: two runs on the same features have the same
\* text after the same number of steps, choose the same ids step by step,
\* and return the same final text and caption.
C11_DecodeDeterministic ==
  \A r, q \in Requests :
    (InDecode(r) /\ InDecode(q) /\ photo_features[r] = photo_features[q])
    => /\ \A j \in 1 .. Len(predicted[r]) :
            j <= Len(predicted[q]) => predicted[r][j] = predicted[q][j]
       /\ step[r] = step[q] => in_text[r] = in_text[q]
       /\ (Returned(r) /\ Returned(q)) =>
            /\ in_text[r] = in_text[q]
            /\ step[r] = step[q]
            /\ (Answered(r) /\ Answered(q)) => response[r] = response[q]

\* Two runs on the same features, both through two words and END.
C11_Witness ==
  /\ \A r \in Requests : HasCaption(r) /\ Len(predicted[r]) = 3
  /\ photo_features["r1"] = photo_features["r2"]
  /\ Split(in_text["r1"]) = << "start", "a", "start" >>
  /\ response["r2"].caption = << "a", " ", "start" >>

\* C12, as stated: the scoring model is constructed lazily, on the first
\* use by a request: it exists only once a request has arrived.
C12_Original ==
  session_loads >= 1 => \E r \in Requests : pc[r] /= "idle"

\* C12, amended: the scoring model is constructed exactly once per process,
\* by the module's top-level code at start-up and before any request is
\* served; every request runs with that one construction done and none
\* happens afterwards.
C12_SessionBuiltOnceAtStartup ==
  /\ session_loads <= 1
  /\ serving <=> session_loads = 1
  /\ \A r \in Requests : pc[r] /= "idle" => session_loads = 1

\* Both requests served, one after the other or interleaved, on the one
\* construction.
C12_Witness ==
  /\ session_loads = 1
  /\ \A r \in Requests : HasCaption(r)
  /\ DOMAIN session /= {}

\* C13: for every word w of the vocabulary, word_for_id of the id assigned
\* to w is w itself.
C13_VocabularyRoundTrip ==
  lookup_pc = "word" => lookup_back = lookup_word

\* The round trip of "a" in a vocabulary where it has the last id.
C13_Witness ==
  /\ lookup_pc = "word"
  /\ DOMAIN tokenizer = {"start", "end", "a"}
  /\ lookup_word = "a"
  /\ lookup_id = 4
  /\ lookup_back = "a"

\* The id chosen on the latest step of request r is END's.
ChoseEndLast(r) ==
  Len(predicted[r]) >= 1 /\ IsEndId(predicted[r][Len(predicted[r])])

\* C14, as stated: in both variants the step that chooses END appends END
\* and then stops, so the returned text ends with END.
C14_Original ==
  \A r \in Requests :
    ChoseEndLast(r) =>
      /\ pc[r] \in {"post", "done"}
      /\ Split(in_text[r])[Len(Split(in_text[r]))] = "end"

\* C14, amended: the step that chooses END stops the loop in both variants;
\* generate_desc appends END first, so its text ends with END, while
\* generate_desc_onnx stops without appending it, so its text is the one the
\* step found and holds no END.
C14_EndTokenHalt ==
  \A r \in Requests :
    ChoseEndLast(r) =>
      LET n == Len(predicted[r]) IN
      /\ pc[r] \in {"post", "done"}
      /\ halt[r] = "end"
      /\ step[r] = n
      /\ variant = "backend" =>
           Split(in_text[r]) = << "start" >> \o WordsOf(r, n - 1) \o << "end" >>
      /\ variant = "pa_backend" =>
           /\ Split(in_text[r]) = << "start" >> \o WordsOf(r, n - 1)
           /\ "end" \notin Range(in_text[r])

\* generate_desc_onnx after "a" and then END: the text returned is "start a".
C14_Witness ==
  \E r \in Requests :
    /\ variant = "pa_backend"
    /\ HasCaption(r)
    /\ ChoseEndLast(r)
    /\ in_text[r] = << "start", " ", "a" >>

\* generate_desc after "a" and then END: the text returned is "start a end".
C14_BackendEndsWithEnd ==
  \E r \in Requests :
    /\ variant = "backend"
    /\ HasCaption(r)
    /\ ChoseEndLast(r)
    /\ in_text[r] = << "start", " ", "a", " ", "end" >>

\* The padded ids are zeros followed by START's id and assigned ids only.
StartsAfterPadding(padded) ==
  \E k \in 1 .. Len(padded) :
    /\ \A j \in 1 .. (k - 1) : padded[j] = 0
    /\ padded[k] = tokenizer["start"]
    /\ \A j \in k .. Len(padded) : Assigned(padded[j])

\* C15: whenever a request is about to call the Inference Session its text
\* holds between 1 and max_length tokens and starts with START; the padded
\* id sequence has exactly max_length entries and ends with the ids of all
\* tokens, START's first: nothing is truncated. Every input the session has
\* been called on has that shape.
C15_ScorerInputKeepsEveryToken ==
  /\ \A r \in Requests :
       pc[r] = "loop" =>
         LET toks   == Split(in_text[r])
             ids    == texts_to_sequences(in_text[r])
             padded == pad_sequences(ids)
         IN
         /\ Len(toks) = step[r] + 1
         /\ 1 <= Len(toks) /\ Len(toks) <= max_length
         /\ toks[1] = "start"
         /\ Len(ids) = Len(toks)
         /\ Len(padded) = max_length
         /\ SubSeq(padded, max_length - Len(ids) + 1, max_length) = ids
         /\ \A j \in 1 .. (max_length - Len(ids)) : padded[j] = 0
         /\ padded[max_length - Len(ids) + 1] = tokenizer["start"]
  /\ \A key \in DOMAIN session :
       /\ Len(key[2]) = max_length
       /\ StartsAfterPadding(key[2])

\* The last call of a run to the length bound: the input is max_length ids
\* with no padding, START's id first.
C15_Witness ==
  \E r \in Requests :
    /\ pc[r] = "post"
    /\ halt[r] = "length"
    /\ \E key \in DOMAIN session :
         /\ key[1] = photo_features[r]
         /\ key[2] = texts_to_sequences(SubSeq(in_text[r], 1, 2 * max_length - 1))
         /\ key[2][1] = tokenizer["start"]

\* C16: on the same vocabulary, scoring function and feature vector the
\* caption of backend/generate_caption.py (request r1) equals the caption of
\* pa_backend/app.py (request r2), whichever way the loop halted; the two
\* halt the same way after the same ids, and their raw texts differ exactly
\* by the END the backend appends on an end-token halt.
C16_VariantsAgreeOnCaption ==
  (HasCaption("r1") /\ HasCaption("r2")) =>
    /\ response["r1"].caption = response["r2"].caption
    /\ predicted["r1"] = predicted["r2"]
    /\ halt["r1"] = halt["r2"]
    /\ halt["r1"] \in {"end", "unknown", "length"}
    /\ in_text["r1"] = IF halt["r1"] = "end"
                       THEN Append_word(in_text["r2"], "end")
                       ELSE in_text["r2"]

\* End-token halt: the raw texts differ by the END, the captions agree.
C16_Witness ==
  /\ HasCaption("r1") /\ HasCaption("r2")
  /\ variant = "pa_backend"
  /\ halt["r2"] = "end"
  /\ in_text["r1"] = << "start", " ", "a", " ", "end" >>
  /\ in_text["r2"] = << "start", " ", "a" >>
  /\ response["r2"].caption = << "a" >>

\* The other two halt kinds are reached with both captions returned.
C16_UnknownHaltReached ==
  HasCaption("r1") /\ HasCaption("r2") /\ halt["r2"] = "unknown"
    /\ response["r2"].caption = << "a" >>

C16_LengthHaltReached ==
  HasCaption("r1") /\ HasCaption("r2") /\ halt["r2"] = "length"
    /\ Len(Split(response["r2"].caption)) = max_length

====
